---- MODULE Spec2Model ----
(***************************************************************************)
(* A model of bot.py: the per-guild playback session kept by MusicPlayer   *)
(* (voice_clients, queues, current_songs), the command handlers that       *)
(* drive it, and SunoClient._poll_generation.                              *)
(*                                                                         *)
(* Everything the bot does runs on one asyncio event loop, so a handler    *)
(* runs without interruption from one suspension point (an await that      *)
(* really waits: a network call, a Discord send/edit, connect,             *)
(* disconnect) to the next.  Each action below is one such uninterrupted   *)
(* stretch of a handler.  `await self.play(...)` and                       *)
(* `await self.leave_voice_channel(...)` do not suspend by themselves;     *)
(* the only suspension inside them is `await voice_client.disconnect()`.   *)
(*                                                                         *)
(* The voice transport is discord.py's VoiceClient as bot.py uses it:      *)
(*   connect()    raises while the guild already has a voice client        *)
(*                (connecting, connected or still disconnecting);          *)
(*   disconnect() stops the player at once, the client stops reporting    *)
(*                is_connected(), and the call completes later;            *)
(*   play()       raises when the client is not connected;                 *)
(*   stop() / end of the audio: is_playing() becomes false and the `after` *)
(*                callback is invoked from the player thread, which        *)
(*                schedules _song_finished onto the event loop             *)
(*                (run_coroutine_threadsafe): the coroutine runs later.    *)
(* One guild is modelled; a song_info is identified by its file_path, a    *)
(* positive integer handed out by tempfile.mkstemp.                        *)
(***************************************************************************)
EXTENDS Integers, Sequences, FiniteSets, TLC

\* ---------------------------------------------------------------- bounds
NumProcs == 2      \* command handlers that may be in flight at once
MaxTracks == 3     \* temporary files ever created
MaxCmds == 4       \* commands ever issued
MaxPending == 61   \* longest run of non-terminal poll responses scripted
MaxChunks == 2     \* chunks of the audio body read by download_audio

\* ------------------------------------------------------ program constants
max_attempts == 60

Procs == 1..NumProcs
Tracks == 1..MaxTracks
G == 1        \* the guild_id
NoTrack == 0

VARIABLES
  voice_clients,   \* dict guild_id -> voice client (domain is {} or {G})
  queues,          \* dict guild_id -> list of song_info
  current_songs,   \* dict guild_id -> song_info
  tconn,           \* the guild's voice client at the transport:
                   \*   "none" | "connecting" | "connected" | "disconnecting"
  playing,         \* voice_client.is_playing()
  playingTrack,    \* the file the player is reading (NoTrack when silent)
  pendingCb,       \* _song_finished coroutines scheduled and not yet run,
                   \*   each tagged with the track whose playback ended
  cbDisc,          \* a _song_finished task is suspended in disconnect()
  pc,              \* per handler slot: where the handler is suspended
  ptrack,          \* per handler slot: its local file_path
  files,           \* temporary files that exist
  nextTrack,       \* next path mkstemp hands out
  cmds,            \* commands issued so far
  enqueued,        \* history: add_to_queue calls, in order
  started,         \* history: tracks handed to voice_client.play, in order
  discCount,       \* history: disconnect() calls on the current voice client
  left,            \* history: leave_voice_channel has been called
  lost,            \* history: tracks that left the queue without being
                   \*   started (deleted with the queue, or popped by a
                   \*   play whose voice_client.play raised)
  lastOp,          \* history: what the last step did
  \* --- SunoClient._poll_generation
  script,          \* the job: n non-terminal responses, then `last`
  attempt,         \* loop variable of `for attempt in range(max_attempts)`
  polls,           \* GET requests issued
  pollRet,         \* "running" or how the call ended
  \* --- SunoClient.get_audio_url and download_audio, called after the poll
  urlRet,          \* "pending", "raise", or the value returned:
                   \*   "url" or "None"
  dlArg,           \* the url download_audio was called with ("" = not called)
  dlRet,           \* "not_called", "reading", "raise" or "path"
  tmpFile,         \* the file mkstemp created in download_audio exists
  chunks           \* chunks written to it

sessVars == <<voice_clients, queues, current_songs, tconn, playing,
              playingTrack, pendingCb, cbDisc, pc, ptrack, files, nextTrack,
              cmds, enqueued, started, discCount, left, lost, lastOp>>
dlVars == <<urlRet, dlArg, dlRet, tmpFile, chunks>>
pollVars == <<script, attempt, polls, pollRet, dlVars>>
vars == <<sessVars, pollVars>>

\* ---------------------------------------------------------------- helpers
Empty == [k \in {} |-> NoTrack]

Del(d, g) == [k \in DOMAIN d \ {g} |-> d[k]]

Put(d, g, v) == [k \in DOMAIN d \cup {g} |-> IF k = g THEN v ELSE d[k]]

\* The record every step leaves in lastOp.
\*   op    the handler step
\*   ret   "", "true", "false" or "raise"
\*   fin   the track whose finished-callback this step processed
\*   rm    the file os.remove deleted in this step
\*   cur   current_songs[guild] before the step
\*   head  head of the queue before the step
\*   st    the track handed to voice_client.play in this step
\*   busy  the transport was playing when voice_client.play was invoked
\*   stop / disc  voice_client.stop() / disconnect() calls of this step
Op(op, ret, fin, rm, cur, head, st, busy, stop, disc) ==
  [op |-> op, ret |-> ret, fin |-> fin, rm |-> rm, cur |-> cur,
   head |-> head, st |-> st, busy |-> busy, stop |-> stop, disc |-> disc]

CurOf(g) == IF g \in DOMAIN current_songs THEN current_songs[g] ELSE NoTrack

HeadOf(g) ==
  IF g \in DOMAIN queues /\ queues[g] # <<>> THEN Head(queues[g]) ELSE NoTrack

\* MusicPlayer.get_queue: creates the guild's list when it is missing.
get_queue(qs, g) == IF g \in DOMAIN qs THEN qs ELSE Put(qs, g, <<>>)

\* MusicPlayer.add_to_queue
add_to_queue(qs, g, song) ==
  [get_queue(qs, g) EXCEPT ![g] = Append(@, song)]

\* ------------------------------------------------- the session as a value
\* The handlers below are written as functions from session to session, so
\* that a handler that calls another (play -> leave_voice_channel,
\* _song_finished -> play) is the composition of the two.  The fields st,
\* busy, stops, discs and out describe the call itself: the track started,
\* whether the transport was playing when voice_client.play was invoked,
\* the stop() / disconnect() calls made, and how the call ended
\* ("done", "suspended" in an await, or "raise").
Sess ==
  [vc |-> voice_clients, qs |-> queues, cur |-> current_songs,
   tconn |-> tconn, playing |-> playing, ptk |-> playingTrack,
   cbs |-> pendingCb, started |-> started, dc |-> discCount,
   left |-> left, lost |-> lost,
   st |-> NoTrack, busy |-> FALSE, stops |-> 0, discs |-> 0, out |-> "done"]

Commit(s) ==
  /\ voice_clients' = s.vc
  /\ queues' = s.qs
  /\ current_songs' = s.cur
  /\ tconn' = s.tconn
  /\ playing' = s.playing
  /\ playingTrack' = s.ptk
  /\ pendingCb' = s.cbs
  /\ started' = s.started
  /\ discCount' = s.dc
  /\ left' = s.left
  /\ lost' = s.lost

Range(q) == {q[i] : i \in 1..Len(q)}

QueueTracks(s, g) == IF g \in DOMAIN s.qs THEN Range(s.qs[g]) ELSE {}

\* voice_client.stop() and the stop inside disconnect(): the player ends,
\* is_playing() turns false, and the `after` callback will be invoked.
transport_stop(s) ==
  IF s.playing
    THEN [s EXCEPT !.playing = FALSE, !.ptk = NoTrack,
                   !.cbs = Append(@, s.ptk)]
    ELSE s

\* MusicPlayer.join_voice_channel up to `await voice_channel.connect()`.
join_voice_channel(s, g) ==
  IF g \in DOMAIN s.vc /\ s.tconn = "connected"
    THEN [s EXCEPT !.out = "done"]
    ELSE IF s.tconn # "none"
      THEN [s EXCEPT !.out = "raise"]
      ELSE [s EXCEPT !.tconn = "connecting", !.out = "suspended"]

\* join_voice_channel after connect() returned: line 197.
join_resume(s, g) ==
  [s EXCEPT !.vc = Put(@, g, "vc"), !.tconn = "connected", !.dc = 0,
            !.out = "done"]

\* leave_voice_channel without `if guild_id in self.voice_clients`: the
\* lookup raises KeyError when the guild has no client.
leave_voice_channel_NoGuard(s, g) ==
  LET s1 == [s EXCEPT !.left = TRUE] IN
  IF g \notin DOMAIN s1.vc
    THEN [s1 EXCEPT !.out = "raise"]
  ELSE IF s1.tconn = "connected"
    THEN [transport_stop(s1) EXCEPT !.tconn = "disconnecting",
                                    !.dc = @ + 1, !.discs = @ + 1,
                                    !.out = "suspended"]
    ELSE [s1 EXCEPT !.vc = Del(@, g), !.qs = Del(@, g), !.cur = Del(@, g),
                    !.lost = @ \cup QueueTracks(s1, g),
                    !.out = "done"]

\* MusicPlayer.leave_voice_channel up to `await voice_client.disconnect()`,
\* or to its end when the client is missing or not connected.
leave_voice_channel(s, g) ==
  LET s1 == [s EXCEPT !.left = TRUE] IN
  IF g \in DOMAIN s1.vc /\ s1.tconn = "connected"
    THEN [transport_stop(s1) EXCEPT !.tconn = "disconnecting",
                                    !.dc = @ + 1, !.discs = @ + 1,
                                    !.out = "suspended"]
    ELSE [s1 EXCEPT !.vc = Del(@, g), !.qs = Del(@, g), !.cur = Del(@, g),
                    !.lost = @ \cup QueueTracks(s1, g),
                    !.out = "done"]

\* leave_resume without `del self.queues[guild_id]`.
leave_resume_KeepsQueue(s, g) ==
  LET s1 == [s EXCEPT !.tconn = "none"] IN
  IF g \in DOMAIN s1.vc
    THEN [s1 EXCEPT !.vc = Del(@, g), !.cur = Del(@, g), !.out = "done"]
    ELSE [s1 EXCEPT !.out = "raise"]

\* leave_voice_channel after disconnect() returned: lines 206-213.  The
\* transport has dropped the client; `del self.voice_clients[guild_id]`
\* raises KeyError when another leave removed the entry in the meantime.
leave_resume(s, g) ==
  LET s1 == [s EXCEPT !.tconn = "none"] IN
  IF g \in DOMAIN s1.vc
    THEN [s1 EXCEPT !.vc = Del(@, g), !.qs = Del(@, g), !.cur = Del(@, g),
                    !.lost = @ \cup QueueTracks(s1, g),
                    !.out = "done"]
    ELSE [s1 EXCEPT !.out = "raise"]

\* voice_client.play(source, after=...), line 237.
voice_play(s, song) ==
  IF s.tconn # "connected" \/ s.playing
    THEN [s EXCEPT !.busy = s.playing, !.lost = @ \cup {song},
                   !.out = "raise"]
    ELSE [s EXCEPT !.playing = TRUE, !.ptk = song,
                   !.started = Append(@, song), !.st = song,
                   !.out = "done"]

\* PlayBranch without `if voice_client.is_playing(): return`.
PlayBranch_NoPlayingCheck(s, g) ==
  IF g \notin DOMAIN s.vc THEN "no_client"
  ELSE IF get_queue(s.qs, g)[g] = <<>> THEN "empty"
  ELSE "next"

\* Which way MusicPlayer.play goes: lines 217-230.
PlayBranch(s, g) ==
  IF g \notin DOMAIN s.vc THEN "no_client"
  ELSE IF s.playing THEN "playing"
  ELSE IF get_queue(s.qs, g)[g] = <<>> THEN "empty"
  ELSE "next"

\* pop() instead of pop(0): takes the newest song.
pop_last(q) == <<q[Len(q)], SubSeq(q, 1, Len(q) - 1)>>

\* queue.pop(0), line 233
pop(q) == <<Head(q), Tail(q)>>

\* MusicPlayer.play
play(s, g) ==
  LET b == PlayBranch(s, g) IN
  IF b \in {"no_client", "playing"} THEN [s EXCEPT !.out = "done"]
  ELSE LET s1 == [s EXCEPT !.qs = get_queue(@, g)] IN
    IF b = "empty" THEN leave_voice_channel(s1, g)
    ELSE LET pq == pop(s1.qs[g])
             s2 == [s1 EXCEPT !.qs[g] = pq[2], !.cur = Put(@, g, pq[1])]
         IN voice_play(s2, pq[1])

\* skip without `if not voice_client.is_playing(): return False`.
skip_NoPlayingCheck(s, g) ==
  IF g \notin DOMAIN s.vc THEN [s EXCEPT !.out = "false"]
  ELSE [transport_stop(s) EXCEPT !.stops = @ + 1, !.out = "true"]

\* MusicPlayer.skip
skip(s, g) ==
  IF g \notin DOMAIN s.vc THEN [s EXCEPT !.out = "false"]
  ELSE IF ~s.playing THEN [s EXCEPT !.out = "false"]
  ELSE [transport_stop(s) EXCEPT !.stops = @ + 1, !.out = "true"]

\* The file os.remove is called on in _song_finished (lines 250-254).
RemoveTarget(s, g, fin) ==
  IF g \in DOMAIN s.cur THEN s.cur[g] ELSE NoTrack

LogOp(op, s, fin, rm) ==
  lastOp' = Op(op, s.out, fin, rm, CurOf(G), HeadOf(G), s.st, s.busy,
               s.stops, s.discs)

\* ------------------------------------------------------------------ Init
NoOp == Op("init", "", NoTrack, NoTrack, NoTrack, NoTrack, NoTrack, FALSE, 0, 0)

SessInit ==
  /\ voice_clients = Empty
  /\ queues = Empty
  /\ current_songs = Empty
  /\ tconn = "none"
  /\ playing = FALSE
  /\ playingTrack = NoTrack
  /\ pendingCb = <<>>
  /\ cbDisc = FALSE
  /\ pc = [p \in Procs |-> "idle"]
  /\ ptrack = [p \in Procs |-> NoTrack]
  /\ files = {}
  /\ nextTrack = 1
  /\ cmds = 0
  /\ enqueued = <<>>
  /\ started = <<>>
  /\ discCount = 0
  /\ left = FALSE
  /\ lost = {}
  /\ lastOp = NoOp

DlIdle ==
  /\ urlRet = "pending"
  /\ dlArg = ""
  /\ dlRet = "not_called"
  /\ tmpFile = FALSE
  /\ chunks = 0

PollIdle ==
  /\ script = [n |-> 0, last |-> "completed"]
  /\ attempt = 0
  /\ polls = 0
  /\ pollRet = "running"
  /\ DlIdle

Init == SessInit /\ PollIdle

\* --------------------------------------------------------------- commands
\* A slot takes a new command: the budget of commands bounds the model.
Begin(p) ==
  /\ pc[p] = "idle"
  /\ cmds < MaxCmds
  /\ cmds' = cmds + 1

Frame(p, newpc) ==
  /\ pc' = [pc EXCEPT ![p] = newpc]
  /\ UNCHANGED <<cbDisc, ptrack, files, nextTrack, enqueued, pollVars>>

\* `!suno join`: join() up to the await inside join_voice_channel.
JoinCmd(p) ==
  /\ Begin(p)
  /\ LET s == join_voice_channel(Sess, G) IN
       /\ Commit(s)
       /\ LogOp("join", s, NoTrack, NoTrack)
       /\ Frame(p, IF s.out = "suspended" THEN "join_conn" ELSE "idle")

\* `!suno generate` / `!suno play`: generate_music and play_existing up to
\* the await inside join_voice_channel (connecting) or, when the client is
\* already connected, into the awaits of the Suno calls.  An exception of
\* connect() leaves the handler: the call is outside the try block.
GenCmd(p) ==
  /\ Begin(p)
  /\ LET s == join_voice_channel(Sess, G) IN
       /\ Commit(s)
       /\ LogOp("generate", s, NoTrack, NoTrack)
       /\ Frame(p, CASE s.out = "suspended" -> "gen_conn"
                     [] s.out = "done" -> "gen_fetch"
                     [] OTHER -> "idle")

\* connect() returned: voice_clients[guild_id] = voice_client.
ConnectDone(p) ==
  /\ pc[p] \in {"join_conn", "gen_conn"}
  /\ LET s == join_resume(Sess, G) IN
       /\ Commit(s)
       /\ LogOp("connected", s, NoTrack, NoTrack)
       /\ Frame(p, IF pc[p] = "gen_conn" THEN "gen_fetch" ELSE "idle")
  /\ UNCHANGED cmds

\* generate_music lines 376-396 (play_existing 422-442): the Suno calls
\* succeeded, download_audio created the temporary file, and the song is
\* appended to the guild's queue; the handler then waits in message.edit.
GenEnqueue(p) ==
  /\ pc[p] = "gen_fetch"
  /\ nextTrack <= MaxTracks
  /\ LET path == nextTrack
         s == [Sess EXCEPT !.qs = add_to_queue(@, G, path)] IN
       /\ Commit(s)
       /\ LogOp("enqueue", s, NoTrack, NoTrack)
       /\ files' = files \cup {path}
       /\ nextTrack' = nextTrack + 1
       /\ enqueued' = Append(enqueued, path)
       /\ ptrack' = [ptrack EXCEPT ![p] = path]
       /\ pc' = [pc EXCEPT ![p] = "gen_play"]
  /\ UNCHANGED <<cbDisc, cmds, pollVars>>

\* An except clause that also drops the guild's queue.
fetch_failed_DropsQueue(s, g) == [s EXCEPT !.qs = Del(@, g), !.out = "raise"]

\* The except clause of generate_music and play_existing: the error is
\* logged and reported; no field of the player is touched.
fetch_failed(s, g) == [s EXCEPT !.out = "raise"]

\* A Suno call raised (submit, poll, audio URL, download): the except
\* clause reports it.  download_audio may already have created the
\* temporary file when the read of the body fails (partial).
GenFail(p) ==
  /\ pc[p] = "gen_fetch"
  /\ \E partial \in BOOLEAN :
       /\ partial => nextTrack <= MaxTracks
       /\ files' = IF partial THEN files \cup {nextTrack} ELSE files
       /\ nextTrack' = IF partial THEN nextTrack + 1 ELSE nextTrack
       /\ LET s == fetch_failed(Sess, G) IN
            /\ Commit(s)
            /\ LogOp(IF partial THEN "fetch_failed_partial" ELSE "fetch_failed",
                     s, NoTrack, NoTrack)
  /\ pc' = [pc EXCEPT ![p] = "idle"]
  /\ UNCHANGED <<cbDisc, ptrack, cmds, enqueued, pollVars>>

\* generate_music line 402: await music_player.play(guild_id).
GenPlay(p) ==
  /\ pc[p] = "gen_play"
  /\ LET s == play(Sess, G) IN
       /\ Commit(s)
       /\ LogOp("play", s, NoTrack, NoTrack)
       /\ pc' = [pc EXCEPT ![p] = IF s.out = "suspended" THEN "play_disc"
                                                         ELSE "idle"]
  /\ ptrack' = [ptrack EXCEPT ![p] = NoTrack]
  /\ UNCHANGED <<cbDisc, files, nextTrack, cmds, enqueued, pollVars>>

\* `!suno leave`: leave() up to the await of disconnect(), or to its end.
LeaveCmd(p) ==
  /\ Begin(p)
  /\ LET s == leave_voice_channel(Sess, G) IN
       /\ Commit(s)
       /\ LogOp("leave", s, NoTrack, NoTrack)
       /\ Frame(p, IF s.out = "suspended" THEN "leave_disc" ELSE "idle")

\* disconnect() returned in a handler's leave_voice_channel (called by
\* leave() or by play() on an empty queue).
LeaveDone(p) ==
  /\ pc[p] \in {"leave_disc", "play_disc"}
  /\ LET s == leave_resume(Sess, G) IN
       /\ Commit(s)
       /\ LogOp(IF pc[p] = "leave_disc" THEN "leave_done" ELSE "teardown_done",
                s, NoTrack, NoTrack)
       /\ Frame(p, "idle")
  /\ UNCHANGED cmds

\* `!suno skip`
SkipCmd(p) ==
  /\ Begin(p)
  /\ LET s == skip(Sess, G) IN
       /\ Commit(s)
       /\ LogOp("skip", s, NoTrack, NoTrack)
       /\ Frame(p, "idle")

\* `!suno queue`: show_queue reads the queue through get_queue.
ShowQueue(p) ==
  /\ Begin(p)
  /\ LET s == [Sess EXCEPT !.qs = get_queue(@, G)] IN
       /\ Commit(s)
       /\ LogOp("show_queue", s, NoTrack, NoTrack)
       /\ Frame(p, "idle")

\* ------------------------------------------------ transport and callback
\* The audio source is exhausted: the player thread ends, is_playing()
\* turns false and the `after` lambda schedules _song_finished.
TrackEnds ==
  /\ playing
  /\ LET s == transport_stop(Sess) IN
       /\ Commit(s)
       /\ LogOp("track_ends", s, playingTrack, NoTrack)
  /\ UNCHANGED <<cbDisc, pc, ptrack, files, nextTrack, cmds, enqueued,
                 pollVars>>

\* _song_finished without the try/except around os.remove: the failure
\* leaves the coroutine before play() is reached.
finished_advance_Propagates(s, g, rmFailed) ==
  IF rmFailed THEN [s EXCEPT !.out = "raise"] ELSE play(s, g)

\* _song_finished after the cleanup, lines 250-257: an exception of
\* os.remove is caught and logged, and play() runs either way.
finished_advance(s, g, rmFailed) == play(s, g)

\* MusicPlayer._song_finished, run by the event loop.  `error` is only
\* logged.  os.remove raises when the file is already gone; the exception
\* is caught and logged.
_song_finished ==
  /\ pendingCb # <<>>
  /\ ~cbDisc
  /\ \E error \in BOOLEAN :
       LET fin == Head(pendingCb)
           target == RemoveTarget(Sess, G, fin)
           rm == IF target \in files THEN target ELSE NoTrack
           s == finished_advance([Sess EXCEPT !.cbs = Tail(@)], G,
                                 target # NoTrack /\ rm = NoTrack)
       IN /\ Commit(s)
          /\ files' = files \ {target}
          /\ LogOp(IF error THEN "song_finished_error" ELSE "song_finished",
                   s, fin, rm)
          /\ cbDisc' = (s.out = "suspended")
  /\ UNCHANGED <<pc, ptrack, nextTrack, cmds, enqueued, pollVars>>

\* disconnect() returned in the leave_voice_channel that play() called
\* from _song_finished.
CbLeaveDone ==
  /\ cbDisc
  /\ LET s == leave_resume(Sess, G) IN
       /\ Commit(s)
       /\ LogOp("finished_teardown_done", s, NoTrack, NoTrack)
  /\ cbDisc' = FALSE
  /\ UNCHANGED <<pc, ptrack, files, nextTrack, cmds, enqueued, pollVars>>

Next ==
  \/ \E p \in Procs : JoinCmd(p)
  \/ \E p \in Procs : GenCmd(p)
  \/ \E p \in Procs : ConnectDone(p)
  \/ \E p \in Procs : GenEnqueue(p)
  \/ \E p \in Procs : GenFail(p)
  \/ \E p \in Procs : GenPlay(p)
  \/ \E p \in Procs : LeaveCmd(p)
  \/ \E p \in Procs : LeaveDone(p)
  \/ \E p \in Procs : SkipCmd(p)
  \/ \E p \in Procs : ShowQueue(p)
  \/ TrackEnds
  \/ _song_finished
  \/ CbLeaveDone

Spec == Init /\ [][Next]_vars

\* ------------------------------------------- SunoClient._poll_generation
\* The job's answers: the first script.n GETs report a non-terminal status,
\* every later one reports script.last ("pending" = the job never ends,
\* "http_error" = a non-200 response).
Scripts ==
  [n : 0..MaxPending, last : {"completed", "failed", "http_error", "pending"}]

\* The k-th GET of /generations/{id}, k = 1, 2, ...
Response(sc, k) ==
  IF k <= sc.n \/ sc.last = "pending" THEN [code |-> 200, status |-> "pending"]
  ELSE IF sc.last = "http_error" THEN [code |-> 500, status |-> ""]
  ELSE [code |-> 200, status |-> sc.last]

\* range(max_attempts + 1): one iteration too many.
InRange_OneMore(a) == a <= max_attempts

\* `for attempt in range(max_attempts)`: the loop body runs for this value.
InRange(a) == a < max_attempts

\* The loop body without the `elif status == "failed"` branch.
poll_once_IgnoresFailed(r) ==
  IF r.code # 200 THEN "raise_http"
  ELSE IF r.status = "completed" THEN "return"
  ELSE "sleep"

\* The loop body sleeping and retrying on a non-200 response.
poll_once_RetriesHttp(r) ==
  IF r.code # 200 THEN "sleep"
  ELSE IF r.status = "completed" THEN "return"
  ELSE IF r.status = "failed" THEN "raise_failed"
  ELSE "sleep"

\* One pass of the loop body on a response, lines 80-94.
poll_once(r) ==
  IF r.code # 200 THEN "raise_http"
  ELSE IF r.status = "completed" THEN "return"
  ELSE IF r.status = "failed" THEN "raise_failed"
  ELSE "sleep"

PollInit ==
  /\ script \in Scripts
  /\ attempt = 0
  /\ polls = 0
  /\ pollRet = "running"
  /\ DlIdle

\* One iteration: the GET and what the body makes of it.
PollGet ==
  /\ pollRet = "running"
  /\ InRange(attempt)
  /\ polls' = polls + 1
  /\ LET o == poll_once(Response(script, polls + 1)) IN
       /\ pollRet' = IF o = "sleep" THEN "running" ELSE o
       /\ attempt' = IF o = "sleep" THEN attempt + 1 ELSE attempt
  /\ UNCHANGED <<script, dlVars, sessVars>>

\* The loop ran out: raise Exception("Generation timed out"), line 96.
PollTimeout ==
  /\ pollRet = "running"
  /\ ~InRange(attempt)
  /\ pollRet' = "raise_timeout"
  /\ UNCHANGED <<script, attempt, polls, dlVars, sessVars>>

\* ------------------- SunoClient.get_audio_url and download_audio
\* Answers of GET /generations/{id}/audio: the status, and what
\* data.get("url") yields ("None" when the body has no url field).
AudioResponses == [code : {200, 500}, url : {"url", "None"}]

\* SunoClient.get_audio_url on a response, lines 119-125.
get_audio_url(r) == IF r.code # 200 THEN "raise" ELSE r.url

\* generate_music line 383 (play_existing 429), once the generation is
\* there: audio_url = await suno_client.get_audio_url(generation_id).
GetAudioUrl ==
  /\ pollRet = "return"
  /\ urlRet = "pending"
  /\ \E r \in AudioResponses : urlRet' = get_audio_url(r)
  /\ UNCHANGED <<script, attempt, polls, pollRet, dlArg, dlRet, tmpFile,
                 chunks, sessVars>>

\* generate_music line 386: download_audio(audio_url) up to the first read
\* of the body.  session.get raises on a url that is None; a non-200
\* answer raises; otherwise mkstemp creates the temporary file.
DownloadCall ==
  /\ urlRet \in {"url", "None"}
  /\ dlRet = "not_called"
  /\ dlArg' = urlRet
  /\ \E code \in {200, 404} :
       IF urlRet = "None" \/ code # 200
         THEN dlRet' = "raise" /\ tmpFile' = tmpFile
         ELSE dlRet' = "reading" /\ tmpFile' = TRUE
  /\ UNCHANGED <<script, attempt, polls, pollRet, urlRet, chunks, sessVars>>

\* download_audio lines 139-145: one pass of the read loop.  A chunk is
\* written; an empty chunk ends the loop and the path is returned; a
\* failing read or write raises out of download_audio, which has no
\* handler around the loop.
DlRead ==
  /\ dlRet = "reading"
  /\ \E ev \in {"chunk", "eof", "io_error"} :
       /\ ev = "chunk" => chunks < MaxChunks
       /\ chunks' = IF ev = "chunk" THEN chunks + 1 ELSE chunks
       /\ dlRet' = CASE ev = "chunk" -> "reading"
                     [] ev = "eof" -> "path"
                     [] OTHER -> "raise"
  /\ UNCHANGED <<script, attempt, polls, pollRet, urlRet, dlArg, tmpFile,
                 sessVars>>

InitPoll == SessInit /\ PollInit

NextPoll == PollGet \/ PollTimeout \/ GetAudioUrl \/ DownloadCall \/ DlRead

SpecPoll == InitPoll /\ [][NextPoll]_vars

\* ================================================================ claims
QueueOf(g) == IF g \in DOMAIN queues THEN queues[g] ELSE <<>>

FinishedOps == {"song_finished", "song_finished_error"}

\* No entry of the guild in any of the three dicts.
Absent ==
  /\ G \notin DOMAIN voice_clients
  /\ G \notin DOMAIN queues
  /\ G \notin DOMAIN current_songs

\* What a lookup finds for the guild: no client, nothing current or queued.
ViewEmpty ==
  /\ G \notin DOMAIN voice_clients
  /\ G \notin DOMAIN current_songs
  /\ QueueOf(G) = <<>>

\* Nothing in flight: no handler suspended, no callback scheduled.
Quiet ==
  /\ pendingCb = <<>>
  /\ ~cbDisc
  /\ \A p \in Procs : pc[p] = "idle"

\* C1: voice_client.play is never invoked while the guild's transport still
\* reports a track as playing, under every interleaving of enqueue,
\* finished-callback, skip and leave; the track the transport plays is the
\* one handed to it last.
C1_OneTrackAtATime ==
  /\ ~lastOp.busy
  /\ playing => /\ started # <<>>
                /\ playingTrack = started[Len(started)]

\* C1 witness: play() was called while a track was playing and returned
\* without starting the song it had just queued.
C1_Witness ==
  /\ lastOp.op = "play"
  /\ lastOp.st = NoTrack
  /\ playing
  /\ HeadOf(G) # NoTrack

\* C2: tracks are handed to voice_client.play in the order of add_to_queue:
\* the tracks started so far followed by the tracks still queued are the
\* tracks enqueued, in enqueue order, so none is started before an earlier
\* one and none twice.  Tracks are taken out of that order only by a leave
\* (the queue deleted, or a play on the client being disconnected).
C2_FifoOrder ==
  /\ SelectSeq(enqueued, LAMBDA t : t \notin lost) = started \o QueueOf(G)
  /\ ~left => lost = {}

\* C2 witness: three enqueues, no leave; two tracks started, one waits.
C2_Witness ==
  /\ ~left
  /\ Len(enqueued) = 3
  /\ Len(started) = 2
  /\ QueueOf(G) # <<>>

\* C3 (as claimed): when the finished-callback of track T has been
\* processed, T's file is gone, and if the queue was non-empty the head of
\* the queue was handed to voice_client.play.
C3_Claim ==
  lastOp.op \in FinishedOps =>
    /\ lastOp.fin \notin files
    /\ lastOp.head # NoTrack => lastOp.st = lastOp.head

\* C4 (as claimed): once the session is closed and nothing is in flight,
\* every track that was enqueued and is no longer queued has had its file
\* deleted.
C4_Claim ==
  (Quiet /\ G \notin DOMAIN voice_clients /\ tconn = "none") =>
    \A t \in Range(enqueued) : t \in Range(QueueOf(G)) \/ t \notin files

\* C5: a finished-callback that finds the client connected, silent and the
\* queue empty tears the session down: it calls disconnect() once (no
\* connection is ever disconnected twice), and when the teardown completes
\* the guild's voice client, queue and current track are removed.  From
\* then on the guild has no voice client, no current track and no queued
\* track, in every state, until a connect completes or a track is
\* enqueued.  (show_queue may store an empty list for the guild again; a
\* lookup still finds nothing in it.)
C5_Teardown ==
  [][/\ (/\ lastOp'.op \in FinishedOps
         /\ G \in DOMAIN voice_clients /\ tconn = "connected"
         /\ ~playing /\ HeadOf(G) = NoTrack)
          => /\ lastOp'.disc = 1
             /\ discCount' = 1
             /\ tconn' = "disconnecting"
             /\ cbDisc'
     /\ discCount' <= 1
     /\ lastOp'.op \in {"teardown_done", "finished_teardown_done"}
          => /\ G \notin DOMAIN voice_clients'
             /\ tconn' = "none"
             /\ lastOp'.ret = "done" => Absent'
     /\ (ViewEmpty /\ lastOp'.op \notin {"connected", "enqueue"})
          => ViewEmpty'
    ]_vars

\* C5 witness: the only track finished, its callback tore the session
\* down, and the teardown has completed.
C5_Witness ==
  /\ lastOp.op = "finished_teardown_done"
  /\ lastOp.ret = "done"
  /\ Len(started) = 1
  /\ files = {}
  /\ Absent
  /\ Quiet

\* C6: _poll_generation on a job that is non-terminal for n < 60 polls and
\* then completed returns after exactly n + 1 GETs; on a job that is
\* non-terminal for 60 polls it raises the timeout after exactly 60 GETs;
\* it never issues more than 60.
C6_PollCount ==
  /\ polls <= max_attempts
  /\ pollRet = "return" =>
       /\ script.last = "completed"
       /\ script.n < max_attempts
       /\ polls = script.n + 1
  /\ pollRet = "raise_timeout" =>
       /\ polls = max_attempts
       /\ script.n >= max_attempts \/ script.last = "pending"
  /\ (pollRet # "running" /\ script.last = "completed"
        /\ script.n < max_attempts) => pollRet = "return"
  /\ (pollRet # "running" /\ script.n >= max_attempts)
        => pollRet = "raise_timeout"

\* C6 witness: the job completes on the last poll allowed.
C6_Witness ==
  /\ pollRet = "return"
  /\ script.n = max_attempts - 1
  /\ polls = max_attempts

\* C7 (as claimed): when a leave has run to its end without raising, the
\* file of the track that was current is deleted, the transport is not
\* connected and the guild's entries are removed.
C7_Claim ==
  (lastOp.op \in {"leave", "leave_done"} /\ lastOp.ret = "done") =>
    /\ lastOp.cur # NoTrack => lastOp.cur \notin files
    /\ tconn # "connected"
    /\ Absent

\* C8: skip on a session that is not playing returns false, calls nothing
\* on the transport and changes nothing; skip on a playing session returns
\* true and calls stop() exactly once, which ends the playback and
\* schedules the same _song_finished as a natural end; skip itself never
\* touches the queue, the current track, the connection or a file.
C8_Skip ==
  [][lastOp'.op = "skip" =>
       /\ UNCHANGED <<voice_clients, queues, current_songs, tconn, files,
                      started, cbDisc>>
       /\ lastOp'.disc = 0
       /\ lastOp'.st = NoTrack
       /\ ~(G \in DOMAIN voice_clients /\ playing) =>
            /\ lastOp'.ret = "false"
            /\ lastOp'.stop = 0
            /\ UNCHANGED <<playing, playingTrack, pendingCb>>
       /\ (G \in DOMAIN voice_clients /\ playing) =>
            /\ lastOp'.ret = "true"
            /\ lastOp'.stop = 1
            /\ ~playing'
            /\ pendingCb' = Append(pendingCb, playingTrack)
    ]_vars

\* C8 witness: a skip stopped the playing track while another one waited.
C8_Witness ==
  /\ lastOp.op = "skip"
  /\ lastOp.ret = "true"
  /\ lastOp.stop = 1
  /\ HeadOf(G) # NoTrack

\* C9 (as claimed): while the guild is connected, current_songs has an
\* entry for the guild exactly when the voice client reports playing.
C9_Claim ==
  (G \in DOMAIN voice_clients /\ tconn = "connected") =>
    ((G \in DOMAIN current_songs) <=> playing)

\* C10 (as claimed): never connected with a non-empty queue and nothing
\* playing.
C10_Claim ==
  ~(/\ G \in DOMAIN voice_clients
    /\ tconn = "connected"
    /\ QueueOf(G) # <<>>
    /\ ~playing)

\* C13: _poll_generation on a job that reports `failed` on poll K
\* (1 <= K <= 60) raises the generation-failed error at poll K: exactly K
\* GETs have been issued when it ends, and it ends no other way.
C13_FailedStops ==
  /\ pollRet = "raise_failed" =>
       /\ script.last = "failed"
       /\ script.n < max_attempts
       /\ polls = script.n + 1
  /\ (script.last = "failed" /\ script.n < max_attempts) =>
       /\ polls <= script.n + 1
       /\ pollRet \in {"running", "raise_failed"}
       /\ polls = script.n + 1 => pollRet = "raise_failed"

\* C13 witness: the job fails on the last poll allowed (K = 60).
C13_Witness ==
  /\ pollRet = "raise_failed"
  /\ script.n = max_attempts - 1
  /\ polls = max_attempts

\* C14: the first poll answered with a non-200 HTTP status ends
\* _poll_generation with an error at once, no later GET is issued, and the
\* loop goes round again (attempt advances) only past responses that were
\* 200 with a non-terminal status.
C14_HttpErrorFatal ==
  /\ pollRet = "raise_http" =>
       /\ script.last = "http_error"
       /\ polls = script.n + 1
  /\ script.last = "http_error" =>
       /\ polls <= script.n + 1
       /\ polls = script.n + 1 => pollRet = "raise_http"
  /\ attempt <= polls
  /\ script.last # "pending" => attempt <= script.n
  /\ \A k \in 1..attempt :
       /\ Response(script, k).code = 200
       /\ Response(script, k).status \notin {"completed", "failed"}

\* C14 witness: two pending polls, then a non-200 answer on the third.
C14_Witness ==
  /\ pollRet = "raise_http"
  /\ script.n = 2
  /\ polls = 3

\* C16 (as claimed): get_audio_url never hands an absent url to its
\* caller, so download_audio is never called without a url.
C16_Claim ==
  /\ urlRet # "None"
  /\ dlArg # "None"

\* C17 (as claimed): when download_audio has raised, the temporary file it
\* created does not exist.
C17_Claim == dlRet = "raise" => ~tmpFile

\* C11 (as claimed): when a generate workflow ends with play() on a guild
\* whose session was closed while the download was in flight, no track is
\* left in the queue of the guild, which has no connection.
C11_Claim ==
  (lastOp.op = "play" /\ G \notin DOMAIN voice_clients) => QueueOf(G) = <<>>

FailedOps == {"fetch_failed", "fetch_failed_partial"}

\* C12: a failed Suno call in generate_music / play_existing changes nothing
\* of the guild's queue, current song, client, transport or scheduled
\* callbacks; and a leave issued right after it on a connected client calls
\* disconnect, whose completion leaves no entry of the guild behind.
C12_FailureIsolated ==
  [][ /\ lastOp'.op \in FailedOps =>
           /\ UNCHANGED <<voice_clients, queues, current_songs, tconn,
                          playing, playingTrack, pendingCb, enqueued,
                          started>>
           /\ lastOp'.ret = "raise"
      /\ ( /\ lastOp.op \in FailedOps
           /\ lastOp'.op = "leave"
           /\ G \in DOMAIN voice_clients
           /\ tconn = "connected" ) =>
           /\ lastOp'.disc = 1
           /\ lastOp'.ret = "suspended"
           /\ tconn' = "disconnecting"
      /\ ( /\ lastOp.op = "leave"
           /\ lastOp.ret = "suspended"
           /\ lastOp'.op = "leave_done" ) =>
           /\ lastOp'.ret = "done"
           /\ Absent'
           /\ tconn' = "none"
    ]_vars

\* A generate whose download failed after the file was created, on a
\* connection opened for it, followed by a leave that disconnects.
C12_Witness ==
  /\ lastOp.op = "leave"
  /\ lastOp.ret = "suspended"
  /\ tconn = "disconnecting"
  /\ enqueued = <<>>
  /\ files # {}
  /\ cmds = 2

\* C15: a leave that follows a completed leave of the same guild ends
\* without error, calls neither disconnect nor stop, deletes no file and
\* changes no entry of the player: two leaves in a row leave the state of
\* one.
C15_LeaveTwice ==
  [][ ( /\ lastOp.op \in {"leave", "leave_done"}
        /\ lastOp.ret = "done"
        /\ lastOp'.op = "leave" ) =>
        /\ lastOp'.ret = "done"
        /\ lastOp'.disc = 0
        /\ lastOp'.stop = 0
        /\ UNCHANGED <<voice_clients, queues, current_songs, tconn, playing,
                       playingTrack, pendingCb, files, discCount>>
    ]_vars

\* generate, the track started, leave and its disconnect, then at once the
\* second leave: the callback of the stopped track has not run yet.
C15_Witness ==
  /\ lastOp.op = "leave"
  /\ lastOp.ret = "done"
  /\ cmds = 3
  /\ Len(started) = 1
  /\ discCount = 1
  /\ files = {1}
  /\ pendingCb = <<1>>
  /\ \A p \in Procs : pc[p] = "idle"
  /\ Absent

\* C18: whether or not os.remove succeeded in _song_finished, and whether
\* or not the transport reported an error, the callback on a connected,
\* idle client goes on as play() does: it starts the head of the queue, or
\* with an empty queue begins the teardown; it never ends with an exception.
C18_CleanupSwallowed ==
  [][ ( /\ lastOp'.op \in FinishedOps
        /\ G \in DOMAIN voice_clients
        /\ tconn = "connected"
        /\ ~playing ) =>
        IF HeadOf(G) # NoTrack
          THEN /\ lastOp'.ret = "done"
               /\ lastOp'.st = HeadOf(G)
               /\ playing'
               /\ playingTrack' = HeadOf(G)
               /\ CurOf(G)' = HeadOf(G)
          ELSE /\ lastOp'.ret = "suspended"
               /\ lastOp'.disc = 1
               /\ tconn' = "disconnecting"
    ]_vars

\* A callback reported with an error whose os.remove failed (the file of
\* the current song was already gone) and which started the next song.
C18_Witness ==
  /\ lastOp.op = "song_finished_error"
  /\ lastOp.cur # NoTrack
  /\ lastOp.rm = NoTrack
  /\ lastOp.st # NoTrack
  /\ playing

\* C19 (as claimed): showing the queue of a guild that has no entry in
\* voice_clients, queues or current_songs creates none.
C19_Claim ==
  [][ (Absent /\ lastOp'.op = "show_queue") =>
        UNCHANGED <<voice_clients, queues, current_songs>> ]_vars

\* C20 (as claimed): the file of the track being played exists for as long
\* as it plays, and a _song_finished that runs while a track plays removes
\* the file of the track whose end scheduled it, not the playing one's.
C20_Claim ==
  /\ playing => playingTrack \in files
  /\ (playing /\ lastOp.op \in FinishedOps /\ lastOp.rm # NoTrack) =>
       (lastOp.rm = lastOp.fin /\ lastOp.rm # playingTrack)

\* C21 (as claimed): a join, generate or play request that arrives while
\* the guild has a live connection or a connect() in progress does not
\* invoke connect(): join_voice_channel returns without suspending in
\* connect() and without an exception of it.
C21_Claim ==
  [][ ( /\ lastOp'.op \in {"join", "generate"}
        /\ tconn \in {"connecting", "connected"} ) =>
        lastOp'.ret \notin {"suspended", "raise"} ]_vars

====
